---- MODULE Spec2Model ----
(***************************************************************************)
(* Payment-gateway adapters of src/src/modules/payment-cashfree/service.ts *)
(* (CashfreePaymentProvider, the REST gateway, and RazorpayPaymentProvider,*)
(* the SDK gateway), modelled as a state machine.  One behaviour is one    *)
(* call of one adapter operation; every action is one step of the handler, *)
(* and the gateway's answers are the nondeterministic inputs.              *)
(***************************************************************************)
EXTENDS Integers, Sequences, FiniteSets, TLC

(***************************************************************************)
(* Bounds of the model.                                                    *)
(***************************************************************************)
\* deepest `data` nesting of a session handed to an adapter operation
MaxNest == 1
\* number of webhook deliveries of one event that are followed
MaxDeliveries == 2
\* deepest `data` nesting of a payload handed to flattenData alone
MaxFlattenNest == 11
\* the descent counter of flattenData saturates here (cyclic payloads)
DescentCap == 12

(***************************************************************************)
(* Program constants.                                                      *)
(***************************************************************************)
\* service.ts:142  const maxAttempts = 5
maxAttempts == 5

VARIABLES
    provider,     \* "cashfree" | "razorpay": the adapter that is called
    op,           \* the operation the host called
    session,      \* the paymentSessionData / paymentData argument
    stack,        \* call stack of methods, innermost last
    pc,           \* position inside the innermost method
    farg,         \* flattenData: its argument `data`
    clean,        \* flattenData: its local `clean`
    descents,     \* number of `clean = clean.data` steps of the running flattenData
    flat,         \* value returned by the last flattenData call
    flatData,     \* authorizePayment: its local `flatData`
    attempts,     \* getPaymentStatus: its local `attempts`
    orderStatus,  \* getPaymentStatus: its local `orderStatus`
    responses,    \* outcome of every gateway poll issued, in order
    delays,       \* for every pass of line 165: did the loop sleep
    gatewayCalls, \* number of gateway requests issued (polls, refunds, fetches)
    result,       \* status returned to the host ("none" while running)
    outData,      \* data returned to the host
    thrown,       \* TRUE when the operation rejected (threw) to the host
    amountIn,     \* context.amount / refundAmount: integer minor units
    currencyIn,   \* context.currency_code
    resourceIn,   \* context.resource_id ("" when absent)
    now,          \* Date.now(): the millisecond clock
    requests,     \* every order / refund request sent to a gateway, in order
    aborted,      \* where the call stood when the caller's deadline gave up
                  \* on it ("wait", "get"); "no" while it has not
    calls,        \* number of operations the host has called so far
    reported,     \* TRUE once a call returned AUTHORIZED or CAPTURED
    statusBefore, \* the status getPaymentStatus returned before the host's
                  \* pass-through call ("none" when there was no such call)
    webhookSecret,\* options_.webhookSecret ("" when unset)
    event,        \* the webhook event the gateway sends
    signature,    \* the x-razorpay-signature header of the webhook
    deliveries    \* every webhook delivery handled: its form and the answer

vars == <<provider, op, session, stack, pc, farg, clean, descents, flat,
          flatData, attempts, orderStatus, responses, delays, gatewayCalls,
          result, outData, thrown, amountIn, currencyIn, resourceIn, now,
          requests, aborted, calls, reported, statusBefore, webhookSecret,
          event, signature, deliveries>>

\* the host's call context and the webhook input, as groups
hostVars == <<amountIn, currencyIn, resourceIn, now, aborted, calls, reported,
              statusBefore>>
hookVars == <<webhookSecret, event, signature, deliveries>>

(***************************************************************************)
(* Session payloads.  A payload is null/undefined, or a chain of maps      *)
(* nested under `data`: level 1 is the outermost map, level i+1 is the     *)
(* `data` field of level i.  `ids` is the set of levels that carry a       *)
(* (truthy) order_id.  The `data` field of the last level is absent, null, *)
(* or a reference back to level `back` of the same payload (a cycle).      *)
(***************************************************************************)
NullPayload == [kind |-> "null", n |-> 0, ids |-> {}, tail |-> "absent", back |-> 0]

TreePayloads(maxNest) ==
    { [kind |-> "map", n |-> n, ids |-> ids, tail |-> t, back |-> 0] :
        <<n, ids, t>> \in
          { x \in (1..(maxNest + 1)) \X (SUBSET (1..(maxNest + 1))) \X {"absent", "null"} :
              x[2] \subseteq 1..x[1] } }

CyclicPayloads(maxNest) ==
    { [kind |-> "map", n |-> n, ids |-> ids, tail |-> "ref", back |-> b] :
        <<n, ids, b>> \in
          { x \in (1..(maxNest + 1)) \X (SUBSET (1..(maxNest + 1))) \X (1..(maxNest + 1)) :
              /\ x[2] \subseteq 1..x[1]
              /\ Cardinality(x[2]) <= 1
              /\ x[3] \in {1, x[1]} } }

\* References to JavaScript values: null/undefined, a fresh empty map {},
\* or the map at level i of the session payload.
NullRef == [k |-> "null", i |-> 0]
EmptyRef == [k |-> "empty", i |-> 0]
LevelRef(i) == [k |-> "level", i |-> i]
NoRef == [k |-> "none", i |-> 0]

SessionRef(p) == IF p.kind = "null" THEN NullRef ELSE LevelRef(1)

\* `r.data`: the value of the data field of r (NullRef when absent or null)
DataOf(p, r) ==
    IF r.k # "level" THEN NullRef
    ELSE IF r.i < p.n THEN LevelRef(r.i + 1)
    ELSE IF p.tail = "ref" THEN LevelRef(p.back)
    ELSE NullRef

\* `r.order_id` is truthy
HasOrderId(p, r) == r.k = "level" /\ r.i \in p.ids

\* JavaScript truthiness of a reference: null/undefined are falsy, maps truthy
Truthy(r) == r.k \in {"level", "empty"}

\* service.ts:46  while (clean.data && !clean.order_id)
LoopGuardSingleUnwrap(p, r) ==
    Truthy(DataOf(p, r)) /\ ~HasOrderId(p, r) /\ r = LevelRef(1)
LoopGuard(p, r) == Truthy(DataOf(p, r)) /\ ~HasOrderId(p, r)

\* crypto.createHmac("sha256", key).update(msg).digest("hex"), as an ideal
\* MAC: the digest determines the key and the message
Hmac(key, msg) == [key |-> key, msg |-> msg]
NoSignature == [key |-> "", msg |-> <<"", "">>]

\* no webhook body, and no signature header
NoEvent == [type |-> "", entity |-> "none", wellformed |-> FALSE]
NoWebhookSignature == Hmac("", NoEvent)

\* an operation that takes no amount, and an adapter that gets no webhook
HostIdle ==
    /\ amountIn = 0
    /\ currencyIn = "INR"
    /\ resourceIn = ""
    /\ now = 0
    /\ requests = <<>>
    /\ aborted = "no"
    /\ calls = 1
    /\ reported = FALSE
    /\ statusBefore = "none"

HookIdle ==
    /\ webhookSecret = ""
    /\ event = NoEvent
    /\ signature = NoWebhookSignature
    /\ deliveries = <<>>

Top == IF Len(stack) = 0 THEN "none" ELSE stack[Len(stack)]
Caller == IF Len(stack) < 2 THEN "none" ELSE stack[Len(stack) - 1]
Pop == SubSeq(stack, 1, Len(stack) - 1)
Min(a, b) == IF a < b THEN a ELSE b

(***************************************************************************)
(* CashfreePaymentProvider.flattenData, service.ts:41-50.                  *)
(***************************************************************************)
\* what the caller does with the value flattenData returns
FlattenReturns(v) ==
    /\ flat' = v
    /\ stack' = Pop
    /\ pc' = IF Caller = "none" THEN "done" ELSE "check"
    /\ flatData' = IF Caller = "authorizePayment" THEN v ELSE flatData

\* service.ts:42-43  if (!data) return {};  let clean = data;
flattenEnter ==
    /\ Top = "flattenData" /\ pc = "enter"
    /\ IF ~Truthy(farg)
         THEN /\ FlattenReturns(EmptyRef)
              /\ UNCHANGED clean
         ELSE /\ clean' = farg
              /\ pc' = "loop"
              /\ UNCHANGED <<stack, flat, flatData>>
    /\ descents' = 0
    /\ UNCHANGED <<provider, op, session, farg, attempts, orderStatus,
                   responses, delays, gatewayCalls, result, outData, thrown>>
    /\ UNCHANGED <<hostVars, hookVars, requests>>

\* service.ts:46-48  one iteration of the while loop: clean = clean.data
flattenStep ==
    /\ Top = "flattenData" /\ pc = "loop"
    /\ LoopGuard(session, clean)
    /\ clean' = DataOf(session, clean)
    /\ descents' = Min(descents + 1, DescentCap)
    /\ UNCHANGED <<provider, op, session, stack, pc, farg, flat, flatData,
                   attempts, orderStatus, responses, delays, gatewayCalls,
                   result, outData, thrown>>
    /\ UNCHANGED <<hostVars, hookVars, requests>>

\* service.ts:46,49  the loop guard is false: return clean
flattenReturn ==
    /\ Top = "flattenData" /\ pc = "loop"
    /\ ~LoopGuard(session, clean)
    /\ FlattenReturns(clean)
    /\ UNCHANGED <<provider, op, session, farg, clean, descents, attempts,
                   orderStatus, responses, delays, gatewayCalls, result,
                   outData, thrown>>
    /\ UNCHANGED <<hostVars, hookVars, requests>>

(***************************************************************************)
(* CashfreePaymentProvider: getPaymentStatus (service.ts:129-186),         *)
(* authorizePayment (104-127), refundPayment (208-245).                    *)
(***************************************************************************)
CashfreeOps == {"getPaymentStatus", "authorizePayment", "refundPayment"}

\* what one GET /orders/{id} can produce: a body with a raw order_status,
\* a body without one ("undefined"), or a failure that lands in the inner
\* catch (the request rejects, or the response has no body to read)
RawStatuses == {"ACTIVE", "PAID", "EXPIRED", "USER_DROPPED", "UNKNOWN", "undefined"}
PollFailures == {"NETWORK_ERROR", "NO_BODY"}
PollOutcomes == RawStatuses \cup PollFailures

\* service.ts:157  the break condition of the polling loop
IsTerminalPaidOnly(s) == s = "PAID"
IsTerminal(s) == s = "PAID" \/ s = "EXPIRED" \/ s = "USER_DROPPED"

\* service.ts:170-181  switch (orderStatus)
MapStatusDefaultPending(s) ==
    CASE s = "PAID" -> "AUTHORIZED"
      [] s = "EXPIRED" -> "CANCELED"
      [] s = "USER_DROPPED" -> "CANCELED"
      [] OTHER -> "PENDING"
MapStatusActiveIsError(s) ==
    CASE s = "PAID" -> "AUTHORIZED"
      [] s = "EXPIRED" -> "CANCELED"
      [] s = "USER_DROPPED" -> "CANCELED"
      [] OTHER -> "ERROR"
MapStatus(s) ==
    CASE s = "PAID" -> "AUTHORIZED"
      [] s = "ACTIVE" -> "PENDING"
      [] s = "EXPIRED" -> "CANCELED"
      [] s = "USER_DROPPED" -> "CANCELED"
      [] OTHER -> "ERROR"

\* service.ts:148-162  where the loop body goes after a poll with outcome r:
\* a terminal status breaks out to the switch, anything else (a failure
\* included) goes on to line 165
AfterPollAbortOnFailure(r) ==
    IF r \in PollFailures \/ IsTerminal(r) THEN "map" ELSE "wait"
AfterPoll(r) ==
    IF r \notin PollFailures /\ IsTerminal(r) THEN "map" ELSE "wait"

\* service.ts:113, 134, 215  if (!flatData.order_id) / if (!orderId)
MissingOrderIdNeverDetected(p, r) == FALSE
MissingOrderId(p, r) == ~HasOrderId(p, r)

\* service.ts:146  while (attempts < maxAttempts)
MayPoll(a) == a < maxAttempts

\* the argument of the innermost method: the host's session for the
\* operation it called, flatData for the getPaymentStatus that
\* authorizePayment calls (service.ts:121)
Arg == IF Len(stack) = 1 THEN SessionRef(session) ELSE flatData

\* service.ts:109, 131, 212  this.flattenData(...)
callFlattenData ==
    /\ provider = "cashfree"
    /\ Top \in CashfreeOps /\ pc = "enter"
    /\ stack' = Append(stack, "flattenData")
    /\ farg' = Arg
    /\ pc' = "enter"
    /\ UNCHANGED <<provider, op, session, clean, descents, flat, flatData,
                   attempts, orderStatus, responses, delays, gatewayCalls,
                   result, outData, thrown>>
    /\ UNCHANGED <<hostVars, hookVars, requests>>

\* service.ts:113-121  no order_id: return ERROR with the clean data;
\* otherwise call getPaymentStatus(flatData)
authorizePaymentCheck ==
    /\ provider = "cashfree"
    /\ Top = "authorizePayment" /\ pc = "check"
    /\ IF MissingOrderId(session, flatData)
         THEN /\ result' = "ERROR"
              /\ outData' = flatData
              /\ stack' = <<>>
              /\ pc' = "done"
         ELSE /\ stack' = Append(stack, "getPaymentStatus")
              /\ pc' = "enter"
              /\ UNCHANGED <<result, outData>>
    /\ UNCHANGED <<provider, op, session, farg, clean, descents, flat, flatData,
                   attempts, orderStatus, responses, delays, gatewayCalls, thrown>>
    /\ UNCHANGED <<hostVars, hookVars, requests>>

\* getPaymentStatus returns s; when authorizePayment called it, that one
\* returns { status: s, data: flatData } (service.ts:123-126)
GetPaymentStatusReturns(s) ==
    /\ result' = s
    /\ outData' = IF Caller = "authorizePayment" THEN flatData ELSE outData
    /\ stack' = <<>>
    /\ pc' = "done"

\* service.ts:132-143  no order_id: return ERROR; otherwise set up the loop
getPaymentStatusCheck ==
    /\ provider = "cashfree"
    /\ Top = "getPaymentStatus" /\ pc = "check"
    /\ IF MissingOrderId(session, flat)
         THEN /\ GetPaymentStatusReturns("ERROR")
              /\ UNCHANGED <<orderStatus, attempts>>
         ELSE /\ orderStatus' = "ACTIVE"
              /\ attempts' = 0
              /\ pc' = "poll"
              /\ UNCHANGED <<stack, result, outData>>
    /\ UNCHANGED <<provider, op, session, farg, clean, descents, flat, flatData,
                   responses, delays, gatewayCalls, thrown>>
    /\ UNCHANGED <<hostVars, hookVars, requests>>

\* service.ts:148-161  orderStatus after a poll with outcome r: the raw
\* status of the response; a failure is caught before the assignment of
\* line 152 and leaves the value s it had
StatusAfterPollFailureForgets(r, s) ==
    IF r \in PollFailures THEN "undefined" ELSE r
StatusAfterPoll(r, s) ==
    IF r \in PollFailures THEN s ELSE r

\* service.ts:146-151  the loop is entered: attempts++, the GET goes out,
\* and `await` gives the event loop back until the gateway answers
getPaymentStatusPoll ==
    /\ provider = "cashfree"
    /\ Top = "getPaymentStatus" /\ pc = "poll"
    /\ MayPoll(attempts)
    /\ attempts' = attempts + 1
    /\ gatewayCalls' = gatewayCalls + 1
    /\ pc' = "get"
    /\ UNCHANGED <<provider, op, session, stack, farg, clean, descents, flat,
                   flatData, orderStatus, responses, delays, result, outData,
                   thrown>>
    /\ UNCHANGED <<hostVars, hookVars, requests>>

\* service.ts:152-161  the GET is answered: read order_status, break on a
\* terminal status; a failure is logged and swallowed
getPaymentStatusPollAnswer ==
    /\ provider = "cashfree"
    /\ Top = "getPaymentStatus" /\ pc = "get"
    /\ \E r \in PollOutcomes :
         /\ responses' = Append(responses, r)
         /\ orderStatus' = StatusAfterPoll(r, orderStatus)
         /\ pc' = AfterPoll(r)
    /\ UNCHANGED <<provider, op, session, stack, farg, clean, descents, flat,
                   flatData, attempts, delays, gatewayCalls, result, outData,
                   thrown>>
    /\ UNCHANGED <<hostVars, hookVars, requests>>

\* service.ts:165-167  sleep before the next attempt if still ACTIVE
getPaymentStatusWait ==
    /\ provider = "cashfree"
    /\ Top = "getPaymentStatus" /\ pc = "wait"
    /\ delays' = Append(delays, orderStatus = "ACTIVE" /\ attempts < maxAttempts)
    /\ pc' = "poll"
    /\ UNCHANGED <<provider, op, session, stack, farg, clean, descents, flat,
                   flatData, attempts, orderStatus, responses, gatewayCalls,
                   result, outData, thrown>>
    /\ UNCHANGED <<hostVars, hookVars, requests>>

\* service.ts:146  the loop condition is false
getPaymentStatusLoopExit ==
    /\ provider = "cashfree"
    /\ Top = "getPaymentStatus" /\ pc = "poll"
    /\ ~MayPoll(attempts)
    /\ pc' = "map"
    /\ UNCHANGED <<provider, op, session, stack, farg, clean, descents, flat,
                   flatData, attempts, orderStatus, responses, delays,
                   gatewayCalls, result, outData, thrown>>
    /\ UNCHANGED <<hostVars, hookVars, requests>>

\* service.ts:170-181  map the last observed raw status.  Every statement
\* of the outer try that can fail sits inside the inner try, so the outer
\* catch (service.ts:182-185) is never entered.
getPaymentStatusMap ==
    /\ provider = "cashfree"
    /\ Top = "getPaymentStatus" /\ pc = "map"
    /\ GetPaymentStatusReturns(MapStatus(orderStatus))
    /\ UNCHANGED <<provider, op, session, farg, clean, descents, flat, flatData,
                   attempts, orderStatus, responses, delays, gatewayCalls, thrown>>
    /\ UNCHANGED <<hostVars, hookVars, requests>>

\* service.ts:213-217  no order_id: throw before any gateway call
refundPaymentCheck ==
    /\ provider = "cashfree"
    /\ Top = "refundPayment" /\ pc = "check"
    /\ IF MissingOrderId(session, flat)
         THEN /\ thrown' = TRUE
              /\ stack' = <<>>
              /\ pc' = "done"
         ELSE /\ pc' = "post"
              /\ UNCHANGED <<stack, thrown>>
    /\ UNCHANGED <<provider, op, session, farg, clean, descents, flat, flatData,
                   attempts, orderStatus, responses, delays, gatewayCalls,
                   result, outData>>
    /\ UNCHANGED <<hostVars, hookVars, requests>>

\* service.ts:58, 219  (amount / 100).toFixed(2): num/den rounded to two
\* decimals (half up), as the digits of the string "w.d1d2"
ToFixedWithoutDivision(num, den) ==
    [whole |-> num, d1 |-> 0, d2 |-> 0]
ToFixed2(num, den) ==
    LET h == (num * 100 + den \div 2) \div den
    IN  [whole |-> h \div 100, d1 |-> (h % 100) \div 10, d2 |-> h % 10]

\* service.ts:63, 222  parseFloat of such a string; a JavaScript number is
\* written here as the integer count of its hundredths
ParseFloat(str) == str.whole * 100 + str.d1 * 10 + str.d2

\* an integer passed to the gateway as it is, in hundredths
Integer(n) == n * 100

\* one request to a gateway: the context it was built from (amountIn,
\* currencyIn) and what it carries (id, amount, currency)
Request(kind, id, amount, currency) ==
    [provider |-> provider, kind |-> kind, id |-> id,
     amountIn |-> amountIn, amount |-> amount,
     currencyIn |-> currencyIn, currency |-> currency]

\* what one refund call to the gateway can produce
RefundOutcomes == {"OK", "NETWORK_ERROR", "NO_BODY"}

\* service.ts:227-244 and 506-514: a failed refund call is rethrown
RefundFailureSwallowed(r) == FALSE
RefundFailureThrows(r) == r # "OK"

\* service.ts:219-232  build the payload and POST the refund; `await` gives
\* the event loop back until the gateway answers
refundPaymentPost ==
    /\ provider = "cashfree"
    /\ Top = "refundPayment" /\ pc = "post"
    /\ gatewayCalls' = gatewayCalls + 1
    /\ requests' = Append(requests,
                          Request("refund", <<"refund_order", now>>,
                                  ParseFloat(ToFixed2(amountIn, 100)), ""))
    /\ pc' = "posted"
    /\ UNCHANGED <<provider, op, session, stack, farg, clean, descents, flat,
                   flatData, attempts, orderStatus, responses, delays, result,
                   outData, thrown>>
    /\ UNCHANGED <<hostVars, hookVars>>

\* service.ts:234-244  the POST is answered: return its fields or throw
refundPaymentPostAnswer ==
    /\ provider = "cashfree"
    /\ Top = "refundPayment" /\ pc = "posted"
    /\ \E r \in RefundOutcomes :
         /\ responses' = Append(responses, r)
         /\ thrown' = RefundFailureThrows(r)
         /\ result' = IF r = "OK" THEN "REFUND_RESULT" ELSE result
    /\ stack' = <<>>
    /\ pc' = "done"
    /\ UNCHANGED <<provider, op, session, farg, clean, descents, flat, flatData,
                   attempts, orderStatus, delays, gatewayCalls, outData>>
    /\ UNCHANGED <<hostVars, hookVars, requests>>

(***************************************************************************)
(* RazorpayPaymentProvider: authorizePayment (service.ts:376-412),         *)
(* getPaymentStatus (414-437), refundPayment (501-515).                    *)
(***************************************************************************)
RazorpayOps == {"getPaymentStatus", "authorizePayment", "refundPayment"}

\* options_.keySecret (service.ts:343) and a secret that is not ours
keySecret == "key_secret"
Secrets == {keySecret, "other_secret"}

\* identifiers in a Razorpay session; "" stands for a missing (falsy) field
PaymentIds == {"pay_1", "pay_2"}
OrderIds == {"order_1", "order_2"}
Signatures == {Hmac(k, <<o, p>>) : <<k, o, p>> \in Secrets \X OrderIds \X PaymentIds}
SessionStatuses == {"", "created", "authorized", "captured"}

RazorpaySessions ==
    {NullPayload} \cup
    [kind : {"rzp"},
     razorpay_payment_id : PaymentIds \cup {""},
     razorpay_order_id : OrderIds \cup {""},
     razorpay_signature : Signatures \cup {NoSignature},
     status : SessionStatuses,
     error : {""}]

\* service.ts:380, 415, 505  destructuring a null/undefined argument throws
\* a TypeError before any try block is entered
DestructuringThrows(p) == p.kind = "null"

\* service.ts:382  a credential is missing
CredentialsMissing(p) ==
    \/ p.razorpay_payment_id = ""
    \/ p.razorpay_order_id = ""
    \/ p.razorpay_signature = NoSignature

\* service.ts:389-393  HMAC of "order_id|payment_id" under the key secret
ExpectedSignaturePaymentFirst(p) ==
    Hmac(keySecret, <<p.razorpay_payment_id, p.razorpay_order_id>>)
ExpectedSignature(p) ==
    Hmac(keySecret, <<p.razorpay_order_id, p.razorpay_payment_id>>)

\* service.ts:376-412  RazorpayPaymentProvider.authorizePayment
razorpayAuthorizePayment ==
    /\ provider = "razorpay"
    /\ Top = "authorizePayment" /\ pc = "enter"
    /\ IF DestructuringThrows(session)
         THEN /\ thrown' = TRUE
              /\ UNCHANGED <<result, outData>>
         ELSE /\ UNCHANGED thrown
              /\ IF CredentialsMissing(session)
                   THEN /\ result' = "PENDING"
                        /\ outData' = session
                   ELSE IF ExpectedSignature(session) = session.razorpay_signature
                   THEN /\ result' = "AUTHORIZED"
                        /\ outData' = [session EXCEPT !.status = "authorized"]
                   ELSE /\ result' = "ERROR"
                        /\ outData' = [session EXCEPT
                                         !.error = "Signature verification failed"]
    /\ stack' = <<>>
    /\ pc' = "done"
    /\ UNCHANGED <<provider, op, session, farg, clean, descents, flat, flatData,
                   attempts, orderStatus, responses, delays, gatewayCalls>>
    /\ UNCHANGED <<hostVars, hookVars, requests>>

\* service.ts:415-422  answer from the session alone when it can; otherwise
\* payments.fetch goes out and `await` gives the event loop back
razorpayGetPaymentStatus ==
    /\ provider = "razorpay"
    /\ Top = "getPaymentStatus" /\ pc = "enter"
    /\ IF DestructuringThrows(session)
         THEN /\ thrown' = TRUE
              /\ stack' = <<>> /\ pc' = "done"
              /\ UNCHANGED result
         ELSE IF session.status = "authorized"
         THEN /\ result' = "AUTHORIZED"
              /\ stack' = <<>> /\ pc' = "done"
              /\ UNCHANGED thrown
         ELSE IF session.status = "captured"
         THEN /\ result' = "CAPTURED"
              /\ stack' = <<>> /\ pc' = "done"
              /\ UNCHANGED thrown
         ELSE IF session.razorpay_payment_id = ""
         THEN /\ result' = "PENDING"
              /\ stack' = <<>> /\ pc' = "done"
              /\ UNCHANGED thrown
         ELSE /\ pc' = "fetch"
              /\ UNCHANGED <<stack, result, thrown>>
    /\ gatewayCalls' = IF pc' = "fetch" THEN gatewayCalls + 1 ELSE gatewayCalls
    /\ UNCHANGED <<provider, op, session, farg, clean, descents, flat, flatData,
                   attempts, orderStatus, responses, delays, outData>>
    /\ UNCHANGED <<hostVars, hookVars, requests>>

\* what payments.fetch can produce: a payment with a status, or a rejection
FetchOutcomes ==
    {"captured", "authorized", "failed", "created", "refunded", "FETCH_ERROR"}

\* service.ts:424-436  switch (payment.status), and the catch
MapPaymentStatus(s) ==
    CASE s = "captured" -> "CAPTURED"
      [] s = "authorized" -> "AUTHORIZED"
      [] s = "failed" -> "ERROR"
      [] s = "FETCH_ERROR" -> "ERROR"
      [] OTHER -> "PENDING"

\* service.ts:422-436  payments.fetch is answered: map the status
razorpayGetPaymentStatusFetchAnswer ==
    /\ provider = "razorpay"
    /\ Top = "getPaymentStatus" /\ pc = "fetch"
    /\ \E r \in FetchOutcomes :
         /\ responses' = Append(responses, r)
         /\ result' = MapPaymentStatus(r)
    /\ stack' = <<>>
    /\ pc' = "done"
    /\ UNCHANGED <<provider, op, session, farg, clean, descents, flat, flatData,
                   attempts, orderStatus, delays, gatewayCalls, outData, thrown>>
    /\ UNCHANGED <<hostVars, hookVars, requests>>

\* service.ts:501-509  RazorpayPaymentProvider.refundPayment: the
\* destructuring is outside the try; payments.refund goes out and `await`
\* gives the event loop back
razorpayRefundPayment ==
    /\ provider = "razorpay"
    /\ Top = "refundPayment" /\ pc = "enter"
    /\ IF DestructuringThrows(session)
         THEN /\ thrown' = TRUE
              /\ stack' = <<>>
              /\ pc' = "done"
              /\ UNCHANGED <<gatewayCalls, requests>>
         ELSE /\ requests' = Append(requests,
                                    Request("refund", <<session.razorpay_payment_id, 0>>,
                                            Integer(amountIn), ""))
              /\ gatewayCalls' = gatewayCalls + 1
              /\ pc' = "refund"
              /\ UNCHANGED <<stack, thrown>>
    /\ UNCHANGED <<provider, op, session, farg, clean, descents, flat, flatData,
                   attempts, orderStatus, responses, delays, result, outData>>
    /\ UNCHANGED <<hostVars, hookVars>>

\* service.ts:510-514  payments.refund is answered: return the data with
\* the refund id, or rethrow
razorpayRefundPaymentAnswer ==
    /\ provider = "razorpay"
    /\ Top = "refundPayment" /\ pc = "refund"
    /\ \E r \in RefundOutcomes :
         /\ responses' = Append(responses, r)
         /\ thrown' = RefundFailureThrows(r)
         /\ result' = IF r = "OK" THEN "REFUND_RESULT" ELSE result
         /\ outData' = IF r = "OK" THEN session ELSE outData
    /\ stack' = <<>>
    /\ pc' = "done"
    /\ UNCHANGED <<provider, op, session, farg, clean, descents, flat, flatData,
                   attempts, orderStatus, delays, gatewayCalls>>
    /\ UNCHANGED <<hostVars, hookVars, requests>>

(***************************************************************************)
(* getWebhookActionAndData of both providers (service.ts:247-314 and       *)
(* 440-488).  A webhook event is the JSON body the gateway sends: its      *)
(* event type, how much of the order / payment entity it carries ("full",  *)
(* "partial": the entity is there but its order_id / notes.resource_id is  *)
(* missing, "none": no entity at all) and whether its text parses as JSON. *)
(* The host hands the body over as text, as a Buffer, as an already parsed *)
(* structure, or not at all.                                               *)
(***************************************************************************)
CashfreeEventTypes ==
    {"PAYMENT_SUCCESS_WEBHOOK", "PAYMENT_FAILED_WEBHOOK",
     "PAYMENT_USER_DROPPED_WEBHOOK", "PAYMENT_CHARGES_WEBHOOK", ""}
RazorpayEventTypes == {"payment.captured", "payment.failed", "order.paid"}
Events(types) == [type : types, entity : {"full", "partial", "none"}, wellformed : BOOLEAN]
WebhookForms == {"string", "buffer", "parsed", "absent"}

\* the forms a given event can arrive in: text that does not parse cannot
\* arrive as a parsed structure
FormsOf(ev) == IF ev.wellformed THEN WebhookForms ELSE WebhookForms \ {"parsed"}

\* options_.webhookSecret (service.ts:327) when set, and a secret that is
\* not ours
Hooksecret == "whsec_1"
HookSecrets == {Hooksecret, "whsec_other"}

\* the answer { action, data } of getWebhookActionAndData; "" stands for
\* an undefined field
Answer(action, kind, order_id, transaction_id, resource_id) ==
    [action |-> action, kind |-> kind, order_id |-> order_id,
     transaction_id |-> transaction_id, resource_id |-> resource_id]
NotSupported == Answer("not_supported", "none", "", "", "")

\* service.ts:268  const orderData = webhookBody.data?.order || {}
OrderData(ev) ==
    [order_id |-> IF ev.entity = "full" THEN "order_1" ELSE "",
     cf_payment_id |-> IF ev.entity \in {"full", "partial"} THEN "cfpay_1" ELSE ""]

\* service.ts:270-309  switch (eventType)
CashfreeDispatchFailedAsAuthorized(ev) ==
    CASE ev.type \in {"PAYMENT_SUCCESS_WEBHOOK", "PAYMENT_FAILED_WEBHOOK"} ->
           Answer("authorized", "order", OrderData(ev).order_id,
                  OrderData(ev).cf_payment_id, "")
      [] ev.type = "PAYMENT_USER_DROPPED_WEBHOOK" ->
           Answer("canceled", "order", OrderData(ev).order_id, "", "")
      [] OTHER -> Answer("not_supported", "body", "", "", "")
CashfreeDispatch(ev) ==
    CASE ev.type = "PAYMENT_SUCCESS_WEBHOOK" ->
           Answer("authorized", "order", OrderData(ev).order_id,
                  OrderData(ev).cf_payment_id, "")
      [] ev.type = "PAYMENT_FAILED_WEBHOOK" ->
           Answer("failed", "order", OrderData(ev).order_id, "", "")
      [] ev.type = "PAYMENT_USER_DROPPED_WEBHOOK" ->
           Answer("canceled", "order", OrderData(ev).order_id, "", "")
      [] OTHER -> Answer("not_supported", "body", "", "", "")

\* service.ts:248-313  the whole handler on the event delivered in `form`:
\* no rawData, or text that JSON.parse rejects (caught), is not_supported
CashfreeWebhookAnswer(form) ==
    IF form = "absent" THEN NotSupported
    ELSE IF form \in {"string", "buffer"} /\ ~event.wellformed THEN NotSupported
    ELSE CashfreeDispatch(event)

\* service.ts:247-314  CashfreePaymentProvider.getWebhookActionAndData
cashfreeGetWebhookActionAndData ==
    /\ provider = "cashfree"
    /\ op = "getWebhookActionAndData"
    /\ Len(deliveries) < MaxDeliveries
    /\ \E form \in FormsOf(event) :
         deliveries' = Append(deliveries,
                              [form |-> form, answer |-> CashfreeWebhookAnswer(form)])
    /\ UNCHANGED <<provider, op, session, stack, pc, farg, clean, descents, flat,
                   flatData, attempts, orderStatus, responses, delays,
                   gatewayCalls, result, outData, thrown, requests, hostVars,
                   webhookSecret, event, signature>>

\* service.ts:445  if (!this.options_.webhookSecret || !signature)
Unverifiable == webhookSecret = "" \/ signature = NoWebhookSignature

\* service.ts:449-454  signature !== expectedSignature, the HMAC of the raw
\* body under the webhook secret
SignatureMismatchIgnored(sig, body) == FALSE
SignatureMismatch(sig, body) == sig # Hmac(webhookSecret, body)

\* service.ts:462-482  switch (eventType); reading notes.resource_id of a
\* payment entity that is not there throws (caught: not_supported)
RazorpayDispatch(ev) ==
    CASE ev.type \in {"payment.captured", "payment.failed"} /\ ev.entity = "none" ->
           NotSupported
      [] ev.type = "payment.captured" ->
           Answer("captured", "payment", "", "",
                  IF ev.entity = "full" THEN "cart_1" ELSE "")
      [] ev.type = "payment.failed" ->
           Answer("failed", "payment", "", "",
                  IF ev.entity = "full" THEN "cart_1" ELSE "")
      [] OTHER -> NotSupported

\* service.ts:441-487  the whole handler on the event delivered in `form`:
\* hashing a missing or already parsed rawData throws, and so does parsing
\* text that is not JSON; the catch answers not_supported
RazorpayWebhookAnswer(form) ==
    IF Unverifiable THEN NotSupported
    ELSE IF form \in {"absent", "parsed"} THEN NotSupported
    ELSE IF SignatureMismatch(signature, event) THEN NotSupported
    ELSE IF ~event.wellformed THEN NotSupported
    ELSE RazorpayDispatch(event)

\* service.ts:440-488  RazorpayPaymentProvider.getWebhookActionAndData
razorpayGetWebhookActionAndData ==
    /\ provider = "razorpay"
    /\ op = "getWebhookActionAndData"
    /\ Len(deliveries) < MaxDeliveries
    /\ \E form \in FormsOf(event) :
         deliveries' = Append(deliveries,
                              [form |-> form, answer |-> RazorpayWebhookAnswer(form)])
    /\ UNCHANGED <<provider, op, session, stack, pc, farg, clean, descents, flat,
                   flatData, attempts, orderStatus, responses, delays,
                   gatewayCalls, result, outData, thrown, requests, hostVars,
                   webhookSecret, event, signature>>

\* one event, delivered up to MaxDeliveries times in any forms
InitWebhook ==
    /\ provider \in {"cashfree", "razorpay"}
    /\ op = "getWebhookActionAndData"
    /\ session = NullPayload
    /\ stack = <<>>
    /\ pc = "idle"
    /\ farg = NoRef
    /\ clean = NoRef
    /\ descents = 0
    /\ flat = NoRef
    /\ flatData = NoRef
    /\ attempts = 0
    /\ orderStatus = "ACTIVE"
    /\ responses = <<>>
    /\ delays = <<>>
    /\ gatewayCalls = 0
    /\ result = "none"
    /\ outData = NoRef
    /\ thrown = FALSE
    /\ HostIdle
    /\ event \in IF provider = "cashfree" THEN Events(CashfreeEventTypes)
                 ELSE Events(RazorpayEventTypes)
    /\ webhookSecret \in IF provider = "cashfree" THEN {""} ELSE {"", Hooksecret}
    /\ signature \in IF provider = "cashfree" THEN {NoWebhookSignature}
                     ELSE {NoWebhookSignature} \cup
                          {Hmac(k, b) : <<k, b>> \in HookSecrets \X Events(RazorpayEventTypes)}
    /\ deliveries = <<>>

NextWebhook == cashfreeGetWebhookActionAndData \/ razorpayGetWebhookActionAndData

SpecWebhook == InitWebhook /\ [][NextWebhook]_vars

(***************************************************************************)
(* One adapter operation, called by the host on a persisted session.       *)
(* Persisted session data is JSON, so it is a finite tree (no cycles).     *)
(***************************************************************************)
CashfreeSessions == {NullPayload} \cup TreePayloads(MaxNest)

Init ==
    /\ provider \in {"cashfree", "razorpay"}
    /\ op \in IF provider = "cashfree" THEN CashfreeOps ELSE RazorpayOps
    /\ session \in IF provider = "cashfree" THEN CashfreeSessions ELSE RazorpaySessions
    /\ stack = <<op>>
    /\ pc = "enter"
    /\ farg = NoRef
    /\ clean = NoRef
    /\ descents = 0
    /\ flat = NoRef
    /\ flatData = NoRef
    /\ attempts = 0
    /\ orderStatus = "ACTIVE"
    /\ responses = <<>>
    /\ delays = <<>>
    /\ gatewayCalls = 0
    /\ result = "none"
    /\ outData = NoRef
    /\ thrown = FALSE
    /\ HostIdle
    /\ HookIdle

Next ==
    \/ callFlattenData
    \/ flattenEnter
    \/ flattenStep
    \/ flattenReturn
    \/ authorizePaymentCheck
    \/ getPaymentStatusCheck
    \/ getPaymentStatusPoll
    \/ getPaymentStatusPollAnswer
    \/ getPaymentStatusWait
    \/ getPaymentStatusLoopExit
    \/ getPaymentStatusMap
    \/ refundPaymentCheck
    \/ refundPaymentPost
    \/ refundPaymentPostAnswer
    \/ razorpayAuthorizePayment
    \/ razorpayGetPaymentStatus
    \/ razorpayGetPaymentStatusFetchAnswer
    \/ razorpayRefundPayment
    \/ razorpayRefundPaymentAnswer

Spec == Init /\ [][Next]_vars

(***************************************************************************)
(* The requests that carry money: initiatePayment, updatePayment and       *)
(* refundPayment of both providers, called by the host up to MaxCalls      *)
(* times with the same context while the clock of Date.now() runs.         *)
(***************************************************************************)
MaxCalls == 2
MaxClock == 2
MaxAmount == 2

InitiateOps == {"initiatePayment", "updatePayment"}

\* context.amount / refundAmount: non-negative integers of minor units
Amounts == (0..MaxAmount) \cup {99, 100, 101, 50000, 150000}

\* context.currency_code; AbsentCurrency is a context without the field
AbsentCurrency == "undefined"
Currencies == {"inr", "INR", "usd", "Usd"}

\* context.resource_id; "" stands for a missing (falsy) field
Resources == {"cart_1"}

\* service.ts:64, 352  currency_code.toUpperCase()
ToUpperCase(c) ==
    CASE c \in {"inr", "INR"} -> "INR"
      [] c \in {"usd", "Usd"} -> "USD"
      [] OTHER -> c

\* service.ts:56  Math.random().toString(36).substring(7): a short random
\* name, which can come out the same in two calls
RandomNames == {"sess_a", "sess_b"}

\* service.ts:56  resource_id || `sess_${Math.random()...}`: the seed, or
\* the random name rnd
validResourceId(rnd) == IF resourceIn # "" THEN resourceIn ELSE rnd

\* service.ts:59  `${validResourceId}_${Date.now()}`
externalId(rnd) == <<validResourceId(rnd), now>>

\* service.ts:353  resource_id || `receipt_${Date.now()}`
receipt ==
    IF resourceIn # "" THEN <<resourceIn, 0>> ELSE <<"receipt_", now>>

\* what one order-creation call to the gateway can produce
InitiateOutcomes == {"OK", "NETWORK_ERROR"}

\* Date.now() moves on by a millisecond
clockTick ==
    /\ now < MaxClock
    /\ now' = now + 1
    /\ UNCHANGED <<provider, op, session, stack, pc, farg, clean, descents,
                   flat, flatData, attempts, orderStatus, responses, delays,
                   gatewayCalls, result, outData, thrown, requests, hookVars>>
    /\ UNCHANGED <<amountIn, currencyIn, resourceIn, aborted, calls, reported,
                   statusBefore>>

\* service.ts:188-190, 517-519  return this.initiatePayment(context)
updatePayment ==
    /\ Top = "updatePayment" /\ pc = "enter"
    /\ stack' = Append(stack, "initiatePayment")
    /\ UNCHANGED <<provider, op, session, pc, farg, clean, descents, flat,
                   flatData, attempts, orderStatus, responses, delays,
                   gatewayCalls, result, outData, thrown>>
    /\ UNCHANGED <<hostVars, hookVars, requests>>

\* service.ts:53-83  CashfreePaymentProvider.initiatePayment: build the
\* payload (toUpperCase of a missing currency_code throws) and POST it;
\* `await` gives the event loop back until the gateway answers
cashfreeInitiatePayment ==
    /\ provider = "cashfree"
    /\ Top = "initiatePayment" /\ pc = "enter"
    /\ IF currencyIn = AbsentCurrency
         THEN /\ thrown' = TRUE
              /\ stack' = <<>>
              /\ pc' = "done"
              /\ UNCHANGED <<requests, gatewayCalls>>
         ELSE /\ \E rnd \in RandomNames :
                   requests' = Append(requests,
                                      Request("order", externalId(rnd),
                                              ParseFloat(ToFixed2(amountIn, 100)),
                                              ToUpperCase(currencyIn)))
              /\ gatewayCalls' = gatewayCalls + 1
              /\ pc' = "order"
              /\ UNCHANGED <<stack, thrown>>
    /\ UNCHANGED <<provider, op, session, farg, clean, descents, flat, flatData,
                   attempts, orderStatus, responses, delays, result, outData>>
    /\ UNCHANGED <<hostVars, hookVars>>

\* service.ts:85-101  the POST is answered: return the order fields, or
\* rethrow
cashfreeInitiatePaymentAnswer ==
    /\ provider = "cashfree"
    /\ Top = "initiatePayment" /\ pc = "order"
    /\ \E r \in InitiateOutcomes :
         /\ responses' = Append(responses, r)
         /\ thrown' = (r # "OK")
         /\ result' = IF r = "OK" THEN "ORDER" ELSE result
    /\ stack' = <<>>
    /\ pc' = "done"
    /\ UNCHANGED <<provider, op, session, farg, clean, descents, flat, flatData,
                   attempts, orderStatus, delays, gatewayCalls, outData>>
    /\ UNCHANGED <<hostVars, hookVars, requests>>

\* service.ts:347-361  RazorpayPaymentProvider.initiatePayment: the amount
\* goes to orders.create as it came; `await` gives the event loop back
razorpayInitiatePayment ==
    /\ provider = "razorpay"
    /\ Top = "initiatePayment" /\ pc = "enter"
    /\ IF currencyIn = AbsentCurrency
         THEN /\ thrown' = TRUE
              /\ stack' = <<>>
              /\ pc' = "done"
              /\ UNCHANGED <<requests, gatewayCalls>>
         ELSE /\ requests' = Append(requests,
                                    Request("order", receipt, Integer(amountIn),
                                            ToUpperCase(currencyIn)))
              /\ gatewayCalls' = gatewayCalls + 1
              /\ pc' = "order"
              /\ UNCHANGED <<stack, thrown>>
    /\ UNCHANGED <<provider, op, session, farg, clean, descents, flat, flatData,
                   attempts, orderStatus, responses, delays, result, outData>>
    /\ UNCHANGED <<hostVars, hookVars>>

\* service.ts:363-373  orders.create is answered: return the order, or
\* rethrow
razorpayInitiatePaymentAnswer ==
    /\ provider = "razorpay"
    /\ Top = "initiatePayment" /\ pc = "order"
    /\ \E r \in InitiateOutcomes :
         /\ responses' = Append(responses, r)
         /\ thrown' = (r # "OK")
         /\ result' = IF r = "OK" THEN "created" ELSE result
    /\ stack' = <<>>
    /\ pc' = "done"
    /\ UNCHANGED <<provider, op, session, farg, clean, descents, flat, flatData,
                   attempts, orderStatus, delays, gatewayCalls, outData>>
    /\ UNCHANGED <<hostVars, hookVars, requests>>

\* where a call stands while its request is with the gateway (service.ts:79,
\* 228, 361, 507)
AwaitingGateway == pc \in {"order", "posted", "refund"}

\* requests of earlier calls that the gateway has not answered yet
EarlierInFlight ==
    gatewayCalls - Len(responses) - (IF AwaitingGateway THEN 1 ELSE 0)

\* the host calls the provider again with the same context (a retry, a
\* second request for the same cart), after the call before has returned
\* or while its request is still with the gateway: initiatePayment or
\* updatePayment after either of them, refundPayment after refundPayment
hostCallsAgain ==
    /\ pc = "done" \/ AwaitingGateway
    /\ calls < MaxCalls
    /\ calls' = calls + 1
    /\ op' \in IF op \in InitiateOps THEN InitiateOps ELSE {op}
    /\ stack' = <<op'>>
    /\ pc' = "enter"
    /\ farg' = NoRef
    /\ clean' = NoRef
    /\ descents' = 0
    /\ flat' = NoRef
    /\ flatData' = NoRef
    /\ result' = "none"
    /\ outData' = NoRef
    /\ thrown' = FALSE
    /\ UNCHANGED <<provider, session, attempts, orderStatus, responses, delays,
                   gatewayCalls, requests, hookVars>>
    /\ UNCHANGED <<amountIn, currencyIn, resourceIn, now, aborted, reported,
                   statusBefore>>

\* the gateway answers the request of an earlier call that the host did
\* not wait for; that call returns or throws to its own caller
earlierCallAnswered ==
    /\ EarlierInFlight > 0
    /\ \E r \in IF op \in InitiateOps THEN InitiateOutcomes ELSE RefundOutcomes :
         responses' = Append(responses, r)
    /\ UNCHANGED <<provider, op, session, stack, pc, farg, clean, descents,
                   flat, flatData, attempts, orderStatus, delays, gatewayCalls,
                   result, outData, thrown, requests, hostVars, hookVars>>

InitRequests ==
    /\ provider \in {"cashfree", "razorpay"}
    /\ op \in InitiateOps \cup {"refundPayment"}
    /\ session \in IF op \in InitiateOps THEN {NullPayload}
                   ELSE IF provider = "cashfree" THEN CashfreeSessions
                   ELSE RazorpaySessions
    /\ stack = <<op>>
    /\ pc = "enter"
    /\ farg = NoRef
    /\ clean = NoRef
    /\ descents = 0
    /\ flat = NoRef
    /\ flatData = NoRef
    /\ attempts = 0
    /\ orderStatus = "ACTIVE"
    /\ responses = <<>>
    /\ delays = <<>>
    /\ gatewayCalls = 0
    /\ result = "none"
    /\ outData = NoRef
    /\ thrown = FALSE
    /\ amountIn \in Amounts
    /\ currencyIn \in IF op \in InitiateOps THEN Currencies \cup {AbsentCurrency}
                      ELSE {"INR"}
    /\ resourceIn \in IF op \in InitiateOps THEN Resources \cup {""} ELSE {""}
    /\ now = 0
    /\ requests = <<>>
    /\ aborted = "no"
    /\ calls = 1
    /\ reported = FALSE
    /\ statusBefore = "none"
    /\ HookIdle

NextRequests ==
    \/ clockTick
    \/ hostCallsAgain
    \/ earlierCallAnswered
    \/ updatePayment
    \/ cashfreeInitiatePayment
    \/ cashfreeInitiatePaymentAnswer
    \/ razorpayInitiatePayment
    \/ razorpayInitiatePaymentAnswer
    \/ callFlattenData
    \/ flattenEnter
    \/ flattenStep
    \/ flattenReturn
    \/ refundPaymentCheck
    \/ refundPaymentPost
    \/ refundPaymentPostAnswer
    \/ razorpayRefundPayment
    \/ razorpayRefundPaymentAnswer

SpecRequests == InitRequests /\ [][NextRequests]_vars

(***************************************************************************)
(* The life of one session: the host calls authorizePayment,               *)
(* getPaymentStatus, capturePayment, cancelPayment, retrievePayment and    *)
(* deletePayment one after the other, up to MaxCalls times, and stores the *)
(* data a call returns as the session of the next call.                    *)
(***************************************************************************)
LifecycleOps == {"authorizePayment", "getPaymentStatus", "capturePayment",
                 "cancelPayment", "retrievePayment", "deletePayment"}

\* service.ts:192-206, 521-531  the methods that return their argument
PassThroughOps ==
    IF provider = "cashfree"
      THEN {"deletePayment", "retrievePayment", "capturePayment", "cancelPayment"}
      ELSE {"deletePayment", "retrievePayment", "cancelPayment"}

\* service.ts:193, 197, 201, 205, 522, 526, 530  the value returned: the
\* argument itself
PassThroughData ==
    IF provider = "cashfree" THEN SessionRef(session) ELSE session

\* the payload that the value r, a level of payload p or a fresh {}, is
\* when stored on its own
SubPayload(p, r) ==
    IF r.k = "level"
      THEN [kind |-> "map", n |-> p.n - r.i + 1,
            ids |-> {j - r.i + 1 : j \in {x \in p.ids : x >= r.i}},
            tail |-> p.tail, back |-> 0]
    ELSE IF r.k = "empty"
      THEN [kind |-> "map", n |-> 1, ids |-> {}, tail |-> "absent", back |-> 0]
    ELSE p

\* the session after this call: the data the call returned, the session
\* as it was when the call returned a bare status or threw
StoredSession ==
    IF outData = NoRef THEN session
    ELSE IF provider = "cashfree" THEN SubPayload(session, outData)
    ELSE outData

\* service.ts:192-206, 521-531  return paymentData
returnPaymentData ==
    /\ Top \in PassThroughOps /\ pc = "enter"
    /\ outData' = PassThroughData
    /\ stack' = <<>>
    /\ pc' = "done"
    /\ UNCHANGED <<provider, op, session, farg, clean, descents, flat, flatData,
                   attempts, orderStatus, responses, delays, gatewayCalls,
                   result, thrown>>
    /\ UNCHANGED <<hostVars, hookVars, requests>>

\* what payments.capture can produce
CaptureOutcomes == {"OK", "CAPTURE_ERROR"}

\* service.ts:490-493  RazorpayPaymentProvider.capturePayment: the
\* destructuring is outside the try; payments.capture goes out and `await`
\* gives the event loop back
razorpayCapturePayment ==
    /\ provider = "razorpay"
    /\ Top = "capturePayment" /\ pc = "enter"
    /\ IF DestructuringThrows(session)
         THEN /\ thrown' = TRUE
              /\ stack' = <<>>
              /\ pc' = "done"
              /\ UNCHANGED gatewayCalls
         ELSE /\ gatewayCalls' = gatewayCalls + 1
              /\ pc' = "capture"
              /\ UNCHANGED <<stack, thrown>>
    /\ UNCHANGED <<provider, op, session, farg, clean, descents, flat, flatData,
                   attempts, orderStatus, responses, delays, result, outData>>
    /\ UNCHANGED <<hostVars, hookVars, requests>>

\* service.ts:494-498  payments.capture is answered: the data with status
\* "captured", or after a failure the data as it came (capture_id is read
\* by no method and is left out)
razorpayCapturePaymentAnswer ==
    /\ provider = "razorpay"
    /\ Top = "capturePayment" /\ pc = "capture"
    /\ \E r \in CaptureOutcomes :
         /\ responses' = Append(responses, r)
         /\ outData' = IF r = "OK" THEN [session EXCEPT !.status = "captured"]
                       ELSE session
    /\ stack' = <<>>
    /\ pc' = "done"
    /\ UNCHANGED <<provider, op, session, farg, clean, descents, flat, flatData,
                   attempts, orderStatus, delays, gatewayCalls, result, thrown>>
    /\ UNCHANGED <<hostVars, hookVars, requests>>

\* the host stores what the call returned and makes its next call;
\* `reported` remembers that some call so far answered AUTHORIZED or CAPTURED
hostNextCall ==
    /\ pc = "done"
    /\ calls < MaxCalls
    /\ calls' = calls + 1
    /\ reported' = (reported \/ result \in {"AUTHORIZED", "CAPTURED"})
    /\ session' = StoredSession
    /\ op' \in LifecycleOps
    /\ stack' = <<op'>>
    /\ pc' = "enter"
    /\ farg' = NoRef
    /\ clean' = NoRef
    /\ descents' = 0
    /\ flat' = NoRef
    /\ flatData' = NoRef
    /\ attempts' = 0
    /\ orderStatus' = "ACTIVE"
    /\ responses' = <<>>
    /\ delays' = <<>>
    /\ gatewayCalls' = 0
    /\ result' = "none"
    /\ outData' = NoRef
    /\ thrown' = FALSE
    /\ UNCHANGED <<provider, requests, hookVars>>
    /\ UNCHANGED <<amountIn, currencyIn, resourceIn, now, aborted, statusBefore>>

InitLifecycle ==
    /\ provider \in {"cashfree", "razorpay"}
    /\ op \in LifecycleOps
    /\ session \in IF provider = "cashfree" THEN CashfreeSessions ELSE RazorpaySessions
    /\ stack = <<op>>
    /\ pc = "enter"
    /\ farg = NoRef
    /\ clean = NoRef
    /\ descents = 0
    /\ flat = NoRef
    /\ flatData = NoRef
    /\ attempts = 0
    /\ orderStatus = "ACTIVE"
    /\ responses = <<>>
    /\ delays = <<>>
    /\ gatewayCalls = 0
    /\ result = "none"
    /\ outData = NoRef
    /\ thrown = FALSE
    /\ HostIdle
    /\ HookIdle

NextLifecycle ==
    \/ hostNextCall
    \/ returnPaymentData
    \/ razorpayCapturePayment
    \/ razorpayCapturePaymentAnswer
    \/ callFlattenData
    \/ flattenEnter
    \/ flattenStep
    \/ flattenReturn
    \/ authorizePaymentCheck
    \/ getPaymentStatusCheck
    \/ getPaymentStatusPoll
    \/ getPaymentStatusPollAnswer
    \/ getPaymentStatusWait
    \/ getPaymentStatusLoopExit
    \/ getPaymentStatusMap
    \/ razorpayAuthorizePayment
    \/ razorpayGetPaymentStatus
    \/ razorpayGetPaymentStatusFetchAnswer

SpecLifecycle == InitLifecycle /\ [][NextLifecycle]_vars

(***************************************************************************)
(* A pass-through call between two status calls: the host asks             *)
(* getPaymentStatus, calls one of the methods that return their argument   *)
(* on the session it holds, and asks getPaymentStatus again, MaxRounds     *)
(* times over.  statusBefore keeps what the status call before the         *)
(* pass-through call returned.                                             *)
(***************************************************************************)
MaxRounds == 1

\* the host stores what getPaymentStatus returned and calls cancelPayment,
\* deletePayment, retrievePayment or (Cashfree) capturePayment
hostCallsPassThrough ==
    /\ op = "getPaymentStatus" /\ pc = "done"
    /\ calls < 2 * MaxRounds
    /\ calls' = calls + 1
    /\ statusBefore' = result
    /\ reported' = (reported \/ result \in {"AUTHORIZED", "CAPTURED"})
    /\ session' = StoredSession
    /\ op' \in PassThroughOps
    /\ stack' = <<op'>>
    /\ pc' = "enter"
    /\ farg' = NoRef
    /\ clean' = NoRef
    /\ descents' = 0
    /\ flat' = NoRef
    /\ flatData' = NoRef
    /\ attempts' = 0
    /\ orderStatus' = "ACTIVE"
    /\ responses' = <<>>
    /\ delays' = <<>>
    /\ gatewayCalls' = 0
    /\ result' = "none"
    /\ outData' = NoRef
    /\ thrown' = FALSE
    /\ UNCHANGED <<provider, requests, hookVars>>
    /\ UNCHANGED <<amountIn, currencyIn, resourceIn, now, aborted>>

\* the host stores what the pass-through call returned and calls
\* getPaymentStatus on it
hostCallsStatusAgain ==
    /\ op \in PassThroughOps /\ pc = "done"
    /\ calls' = calls + 1
    /\ session' = StoredSession
    /\ op' = "getPaymentStatus"
    /\ stack' = <<op'>>
    /\ pc' = "enter"
    /\ farg' = NoRef
    /\ clean' = NoRef
    /\ descents' = 0
    /\ flat' = NoRef
    /\ flatData' = NoRef
    /\ attempts' = 0
    /\ orderStatus' = "ACTIVE"
    /\ responses' = <<>>
    /\ delays' = <<>>
    /\ gatewayCalls' = 0
    /\ result' = "none"
    /\ outData' = NoRef
    /\ thrown' = FALSE
    /\ UNCHANGED <<provider, requests, hookVars>>
    /\ UNCHANGED <<amountIn, currencyIn, resourceIn, now, aborted, reported,
                   statusBefore>>

InitPassThrough ==
    /\ Init
    /\ op = "getPaymentStatus"

NextPassThrough ==
    \/ hostCallsPassThrough
    \/ hostCallsStatusAgain
    \/ returnPaymentData
    \/ callFlattenData
    \/ flattenEnter
    \/ flattenStep
    \/ flattenReturn
    \/ getPaymentStatusCheck
    \/ getPaymentStatusPoll
    \/ getPaymentStatusPollAnswer
    \/ getPaymentStatusWait
    \/ getPaymentStatusLoopExit
    \/ getPaymentStatusMap
    \/ razorpayGetPaymentStatus
    \/ razorpayGetPaymentStatusFetchAnswer

SpecPassThrough == InitPassThrough /\ [][NextPassThrough]_vars

(***************************************************************************)
(* A Cashfree status call whose caller gives up: the host's request        *)
(* deadline expires while getPaymentStatus sleeps between two attempts or  *)
(* while a poll is with the gateway.  getPaymentStatus takes no            *)
(* AbortSignal and keeps no handle of its timer (service.ts:129, 166), so  *)
(* the expiry reaches no statement of the loop.                            *)
(***************************************************************************)
deadlineExpires ==
    /\ provider = "cashfree"
    /\ Top = "getPaymentStatus"
    /\ \/ pc = "get"
       \/ pc = "wait" /\ orderStatus = "ACTIVE" /\ attempts < maxAttempts
    /\ aborted = "no"
    /\ aborted' = pc
    /\ UNCHANGED <<provider, op, session, stack, pc, farg, clean, descents,
                   flat, flatData, attempts, orderStatus, responses, delays,
                   gatewayCalls, result, outData, thrown, requests, hookVars>>
    /\ UNCHANGED <<amountIn, currencyIn, resourceIn, now, calls, reported,
                   statusBefore>>

InitCancel ==
    /\ Init
    /\ provider = "cashfree"
    /\ op \in {"getPaymentStatus", "authorizePayment"}

NextCancel ==
    \/ deadlineExpires
    \/ callFlattenData
    \/ flattenEnter
    \/ flattenStep
    \/ flattenReturn
    \/ authorizePaymentCheck
    \/ getPaymentStatusCheck
    \/ getPaymentStatusPoll
    \/ getPaymentStatusPollAnswer
    \/ getPaymentStatusWait
    \/ getPaymentStatusLoopExit
    \/ getPaymentStatusMap

SpecCancel == InitCancel /\ [][NextCancel]_vars

(***************************************************************************)
(* flattenData called on its own, on every payload shape up to             *)
(* MaxFlattenNest levels of nesting, cyclic payloads included.             *)
(***************************************************************************)
FlattenPayloads ==
    {NullPayload} \cup TreePayloads(MaxFlattenNest) \cup CyclicPayloads(MaxFlattenNest)

InitFlatten ==
    /\ provider = "cashfree"
    /\ op = "flattenData"
    /\ session \in FlattenPayloads
    /\ stack = <<"flattenData">>
    /\ pc = "enter"
    /\ farg = SessionRef(session)
    /\ clean = NoRef
    /\ descents = 0
    /\ flat = NoRef
    /\ flatData = NoRef
    /\ attempts = 0
    /\ orderStatus = "ACTIVE"
    /\ responses = <<>>
    /\ delays = <<>>
    /\ gatewayCalls = 0
    /\ result = "none"
    /\ outData = NoRef
    /\ thrown = FALSE
    /\ HostIdle
    /\ HookIdle

NextFlatten == flattenEnter \/ flattenStep \/ flattenReturn

SpecFlatten == InitFlatten /\ [][NextFlatten]_vars

(***************************************************************************)
(* Properties.                                                             *)
(***************************************************************************)
CashfreeStatusCall ==
    provider = "cashfree" /\ op \in {"getPaymentStatus", "authorizePayment"}

Last(q) == q[Len(q)]

\* C1: Cashfree getPaymentStatus stops polling at the first poll whose raw
\* status is PAID, EXPIRED or USER_DROPPED: a terminal response is always
\* the last poll issued, so the number of attempts equals the 1-based index
\* of the first terminal response, and it never exceeds 5.  (Every attempt
\* is one gateway call, answered unless it is the one in flight.)
C1_StopsAtFirstTerminal ==
    CashfreeStatusCall =>
        /\ gatewayCalls = attempts
        /\ Len(responses) = (IF pc = "get" THEN attempts - 1 ELSE attempts)
        /\ attempts <= 5
        /\ \A i \in 1..Len(responses) :
             responses[i] \in {"PAID", "EXPIRED", "USER_DROPPED"} =>
                 /\ i = Len(responses)
                 /\ attempts = i
                 /\ pc \in {"map", "done"}

C1_Witness ==
    /\ provider = "cashfree" /\ op = "getPaymentStatus" /\ pc = "done"
    /\ responses = <<"ACTIVE", "NETWORK_ERROR", "EXPIRED">>
    /\ attempts = 3

\* C2: when every one of the 5 polls succeeds and reports ACTIVE,
\* getPaymentStatus makes exactly 5 attempts and returns PENDING, not ERROR.
C2_AllActiveIsPending ==
    ( /\ CashfreeStatusCall /\ pc = "done"
      /\ responses # <<>>
      /\ \A i \in 1..Len(responses) : responses[i] = "ACTIVE" )
    => /\ attempts = 5
       /\ Len(responses) = 5
       /\ result = "PENDING"

C2_Witness ==
    /\ provider = "cashfree" /\ op = "getPaymentStatus" /\ pc = "done"
    /\ responses = <<"ACTIVE", "ACTIVE", "ACTIVE", "ACTIVE", "ACTIVE">>
    /\ result = "PENDING"

\* C3: a failed poll (request error, or a response without a body) never
\* aborts the loop: the operation does not throw, after a failure at
\* attempt k < 5 the next poll is still due, the loop is left only after a
\* terminal status or the 5th attempt, and a terminal status returned by a
\* later attempt is the one that is mapped.
C3_FailureDoesNotAbort ==
    CashfreeStatusCall =>
        /\ ~thrown
        /\ ( /\ responses # <<>>
             /\ Last(responses) \in {"NETWORK_ERROR", "NO_BODY"}
             /\ Len(responses) < 5 )
           => /\ pc \in {"wait", "poll", "get"}
              /\ pc = "poll" => ENABLED getPaymentStatusPoll
              /\ pc = "get" => ENABLED getPaymentStatusPollAnswer
              /\ pc = "wait" => ENABLED getPaymentStatusWait
        /\ ( /\ pc = "done"
             /\ \E i \in 1..Len(responses) : responses[i] \in {"NETWORK_ERROR", "NO_BODY"} )
           => /\ (Last(responses) = "PAID" => result = "AUTHORIZED")
              /\ (Last(responses) \in {"EXPIRED", "USER_DROPPED"} => result = "CANCELED")
              /\ (Last(responses) \notin {"PAID", "EXPIRED", "USER_DROPPED"}
                    => Len(responses) = 5)

C3_Witness ==
    /\ provider = "cashfree" /\ op = "getPaymentStatus" /\ pc = "done"
    /\ responses = <<"NETWORK_ERROR", "NO_BODY", "PAID">>
    /\ result = "AUTHORIZED"

\* C4: Cashfree getPaymentStatus and authorizePayment on session data in
\* which no order_id exists at any level (null/undefined data included)
\* return ERROR at once: no gateway poll is ever issued and nothing is
\* thrown.
C4_MissingOrderIdIsError ==
    (CashfreeStatusCall /\ session.ids = {}) =>
        /\ gatewayCalls = 0
        /\ responses = <<>>
        /\ ~thrown
        /\ pc \notin {"poll", "get", "wait", "map"}
        /\ pc = "done" => result = "ERROR"

C4_Witness ==
    /\ provider = "cashfree" /\ op = "authorizePayment" /\ pc = "done"
    /\ session.kind = "map" /\ session.n = 2 /\ session.ids = {}
    /\ result = "ERROR" /\ gatewayCalls = 0

\* C5: the status returned after polling is a function of the final raw
\* status alone: ACTIVE gives PENDING, PAID gives AUTHORIZED, EXPIRED and
\* USER_DROPPED give CANCELED, every other raw value (a missing status
\* included) gives ERROR.
C5_StatusMapping ==
    (CashfreeStatusCall /\ pc = "done" /\ session.ids # {}) =>
        /\ orderStatus = "ACTIVE" => result = "PENDING"
        /\ orderStatus = "PAID" => result = "AUTHORIZED"
        /\ orderStatus = "EXPIRED" => result = "CANCELED"
        /\ orderStatus = "USER_DROPPED" => result = "CANCELED"
        /\ orderStatus \notin {"ACTIVE", "PAID", "EXPIRED", "USER_DROPPED"}
             => result = "ERROR"

C5_Witness ==
    /\ provider = "cashfree" /\ op = "authorizePayment" /\ pc = "done"
    /\ orderStatus = "undefined" /\ Len(responses) = 5
    /\ result = "ERROR"

\* C6: for both gateways getPaymentStatus and authorizePayment never raise:
\* for every session input (null data included) and every gateway outcome
\* they return one of the canonical statuses.
C6_ReadPathNeverRaises ==
    op \in {"getPaymentStatus", "authorizePayment"} =>
        /\ ~thrown
        /\ pc = "done" =>
             result \in {"PENDING", "AUTHORIZED", "CAPTURED", "CANCELED", "ERROR"}

\* C7: refundPayment never swallows a failure: Cashfree with no order_id at
\* any level throws without a gateway call, and on both gateways a failing
\* refund call makes refundPayment throw instead of returning a result.
C7_RefundFailuresPropagate ==
    (op = "refundPayment" /\ pc = "done") =>
        /\ (provider = "cashfree" /\ session.ids = {})
             => (thrown /\ gatewayCalls = 0 /\ result = "none")
        /\ (responses # <<>> /\ Last(responses) # "OK")
             => (thrown /\ result = "none")
        /\ (responses # <<>> /\ Last(responses) = "OK")
             => (~thrown /\ result = "REFUND_RESULT")

C7_Witness ==
    /\ provider = "razorpay" /\ op = "refundPayment" /\ pc = "done"
    /\ responses = <<"NETWORK_ERROR">>
    /\ thrown

FlattenCallDone == op = "flattenData" /\ pc = "done"

\* C8: flattenData on a map nested under `data` to any depth (0, 1, 2, 5
\* among them) with order_id only at the innermost level returns that
\* innermost map; on a map with no order_id at any level it returns the
\* deepest level, the one that has no `data` to descend into; on
\* null/undefined it returns an empty map.
C8_FlattenReturnsInnermost ==
    FlattenCallDone =>
        /\ session.kind = "null" => flat = EmptyRef
        /\ (session.kind = "map" /\ session.tail # "ref" /\ session.ids = {session.n})
             => flat = LevelRef(session.n)
        /\ (session.kind = "map" /\ session.tail # "ref" /\ session.ids = {})
             => /\ flat = LevelRef(session.n)
                /\ ~Truthy(DataOf(session, flat))

C8_Witness ==
    /\ FlattenCallDone
    /\ session.kind = "map" /\ session.n = 6 /\ session.ids = {6}
    /\ session.tail = "absent"
    /\ flat = LevelRef(6) /\ descents = 5

\* C9: flattenData is bounded: it never descends more than 10 levels of
\* `data`, whatever the input (deeper nesting without order_id, a payload
\* whose `data` refers back to itself).
C9_UnwrapBounded ==
    op = "flattenData" => descents <= 10

\* C10: the sanitized payload never contains a nested duplicate of itself:
\* neither the value flattenData returns nor the `data` that Cashfree
\* authorizePayment hands back has a `data` field that again holds a
\* session map with order_id.
NestedDuplicate(r) ==
    Truthy(DataOf(session, r)) /\ HasOrderId(session, DataOf(session, r))

C10_NoNestedDuplicate ==
    provider = "cashfree" =>
        /\ flat # NoRef => ~NestedDuplicate(flat)
        /\ (op = "authorizePayment" /\ pc = "done") => ~NestedDuplicate(outData)

\* C11: Razorpay authorizePayment returns PENDING with the data unchanged
\* when payment id, order id or signature is missing; AUTHORIZED exactly
\* when the supplied signature is the HMAC-SHA256 of "order_id|payment_id"
\* under the key secret; ERROR when all three are present and the signature
\* is another one.  getPaymentStatus returns CAPTURED when the gateway
\* reports the payment as captured.
C11_RazorpayAuthorization ==
    (provider = "razorpay" /\ pc = "done" /\ session.kind = "rzp") =>
        LET missing == \/ session.razorpay_payment_id = ""
                       \/ session.razorpay_order_id = ""
                       \/ session.razorpay_signature = NoSignature
            genuine == session.razorpay_signature =
                         Hmac("key_secret", <<session.razorpay_order_id,
                                              session.razorpay_payment_id>>)
        IN  /\ op = "authorizePayment" =>
                 /\ missing => (result = "PENDING" /\ outData = session)
                 /\ result = "AUTHORIZED" <=> (~missing /\ genuine)
                 /\ (~missing /\ ~genuine) => result = "ERROR"
            /\ ( /\ op = "getPaymentStatus"
                 /\ responses # <<>>
                 /\ Last(responses) = "captured" ) => result = "CAPTURED"

C11_Witness ==
    /\ provider = "razorpay" /\ op = "authorizePayment" /\ pc = "done"
    /\ session.kind = "rzp"
    /\ session.razorpay_signature = Hmac("key_secret", <<"order_1", "pay_2">>)
    /\ result = "AUTHORIZED"

WebhookCall(p) == provider = p /\ op = "getWebhookActionAndData"

\* C12: Razorpay getWebhookActionAndData answers an action other than
\* not_supported only if the signature header is the HMAC-SHA256 of the raw
\* body under the configured webhook secret; an absent signature, an unset
\* secret, another signature or a body altered after signing give
\* not_supported, and the handler never raises.
C12_WebhookSignatureGate ==
    WebhookCall("razorpay") =>
        /\ ~thrown
        /\ \A i \in 1..Len(deliveries) :
             deliveries[i].answer.action # "not_supported" =>
                 /\ webhookSecret = "whsec_1"
                 /\ signature # NoWebhookSignature
                 /\ signature = Hmac("whsec_1", event)

C12_Witness ==
    /\ WebhookCall("razorpay")
    /\ signature = Hmac("whsec_1", event)
    /\ Len(deliveries) = 2
    /\ deliveries[1].answer.action = "captured"
    /\ deliveries[2].form = "buffer" /\ deliveries[2].answer.action = "captured"

\* C13: Cashfree getWebhookActionAndData dispatches by event type alone:
\* PAYMENT_SUCCESS_WEBHOOK gives authorized with transaction_id taken from
\* cf_payment_id, PAYMENT_FAILED_WEBHOOK gives failed,
\* PAYMENT_USER_DROPPED_WEBHOOK gives canceled; every other type, an absent
\* body and an unparsable body give not_supported; it never raises.
C13_CashfreeDispatchByType ==
    WebhookCall("cashfree") =>
        /\ ~thrown
        /\ \A i \in 1..Len(deliveries) :
             LET d == deliveries[i]
                 unreadable == \/ d.form = "absent"
                               \/ (d.form \in {"string", "buffer"} /\ ~event.wellformed)
             IN  /\ unreadable => d.answer.action = "not_supported"
                 /\ (~unreadable /\ event.type = "PAYMENT_SUCCESS_WEBHOOK") =>
                        /\ d.answer.action = "authorized"
                        /\ d.answer.transaction_id =
                             (IF event.entity = "none" THEN "" ELSE "cfpay_1")
                 /\ (~unreadable /\ event.type = "PAYMENT_FAILED_WEBHOOK") =>
                        d.answer.action = "failed"
                 /\ (~unreadable /\ event.type = "PAYMENT_USER_DROPPED_WEBHOOK") =>
                        d.answer.action = "canceled"
                 /\ event.type \notin {"PAYMENT_SUCCESS_WEBHOOK", "PAYMENT_FAILED_WEBHOOK",
                                       "PAYMENT_USER_DROPPED_WEBHOOK"} =>
                        d.answer.action = "not_supported"

C13_Witness ==
    /\ WebhookCall("cashfree")
    /\ event.type = "PAYMENT_SUCCESS_WEBHOOK"
    /\ Len(deliveries) = 1
    /\ deliveries[1].form = "buffer"
    /\ deliveries[1].answer.action = "authorized"
    /\ deliveries[1].answer.transaction_id = "cfpay_1"

\* C14: for both gateways the same webhook event gives the same action
\* whether it is delivered as text, as a Buffer or as a parsed structure.
C14_SameActionInEveryForm ==
    op = "getWebhookActionAndData" =>
        \A i, j \in 1..Len(deliveries) :
            ( /\ deliveries[i].form \in {"string", "buffer", "parsed"}
              /\ deliveries[j].form \in {"string", "buffer", "parsed"} )
            => deliveries[i].answer.action = deliveries[j].answer.action

\* C15: for both gateways a webhook of a recognized event type whose
\* order / payment entity fields (order id, resource id) are missing gives
\* not_supported, not authorized, captured, failed or canceled, and the
\* handler does not raise.
C15_PartialPayloadNotSupported ==
    op = "getWebhookActionAndData" =>
        /\ ~thrown
        /\ \A i \in 1..Len(deliveries) :
             ( /\ event.type \in {"PAYMENT_SUCCESS_WEBHOOK", "PAYMENT_FAILED_WEBHOOK",
                                  "PAYMENT_USER_DROPPED_WEBHOOK",
                                  "payment.captured", "payment.failed"}
               /\ event.entity # "full" )
             => deliveries[i].answer.action = "not_supported"

\* C16: any two order-creation requests that Cashfree initiatePayment or
\* updatePayment post carry different order ids, also when the calls come
\* back to back with the same resource_id.
C16_OrderIdsAreFresh ==
    \A i, j \in 1..Len(requests) :
        ( /\ i # j
          /\ requests[i].provider = "cashfree" /\ requests[i].kind = "order"
          /\ requests[j].provider = "cashfree" /\ requests[j].kind = "order" )
        => requests[i].id # requests[j].id

\* C20: every Cashfree order and refund request carries the amount with
\* whole part a div 100 and cents a mod 100 of the minor-unit amount a it was
\* called with (150000 gives 1500.00, 50000 gives 500.00), every Cashfree
\* order request carries the upper-cased currency code, and the Razorpay
\* requests carry the amount as it came.
C20_AmountConversion ==
    \A i \in 1..Len(requests) :
        LET r == requests[i]
        IN  /\ r.provider = "cashfree" =>
                /\ r.amount \div 100 = r.amountIn \div 100
                /\ r.amount % 100 = r.amountIn % 100
                /\ r.amountIn = 150000 => r.amount = 1500 * 100
                /\ r.amountIn = 50000 => r.amount = 500 * 100
            /\ (r.provider = "cashfree" /\ r.kind = "order") =>
                /\ r.currencyIn \in {"inr", "INR"} => r.currency = "INR"
                /\ r.currencyIn \in {"usd", "Usd"} => r.currency = "USD"
            /\ r.provider = "razorpay" => r.amount = r.amountIn * 100

C20_Witness ==
    /\ provider = "cashfree"
    /\ Len(requests) = 2
    /\ requests[1].kind = "order" /\ requests[2].kind = "order"
    /\ requests[1].amountIn = 50000 /\ requests[1].amount = 50000
    /\ requests[1].currencyIn = "inr" /\ requests[1].currency = "INR"

\* C17: over any sequence of authorizePayment, getPaymentStatus,
\* capturePayment, cancelPayment and retrievePayment calls on one session,
\* each on the data the previous one returned, once a call has reported
\* AUTHORIZED or CAPTURED no later call reports PENDING.
C17_NoReturnToPending ==
    ~(reported /\ pc = "done" /\ result = "PENDING")

\* C19: once the caller's deadline has aborted a getPaymentStatus call that
\* was waiting between attempts, no further poll goes to the gateway.
C19_NoPollAfterAbort ==
    [][aborted = "wait" => gatewayCalls' = gatewayCalls]_vars

\* C21: in the Cashfree poll loop a delay separates every two consecutive
\* attempts: whenever attempt k+1 is made a delay occurred after attempt k,
\* whatever non-terminal status or failure attempt k produced, and no delay
\* occurs after the 5th attempt or after a terminal status.
C21_DelayBetweenAttempts ==
    CashfreeStatusCall =>
        /\ \A k \in 1..Len(delays) :
             /\ k < attempts => delays[k]
             /\ delays[k] => /\ k < 5
                             /\ responses[k] \notin {"PAID", "EXPIRED", "USER_DROPPED"}

\* C22: the result of Cashfree getPaymentStatus is the canonical mapping of
\* the raw status of the most recent successful poll, ACTIVE when no poll
\* succeeded: five failed polls give PENDING after exactly 5 attempts, and
\* an unrecognized status followed only by failures gives ERROR.
C22_LastSuccessfulPollIsMapped ==
    (CashfreeStatusCall /\ pc = "done" /\ responses # <<>>) =>
        LET ok == {i \in 1..Len(responses) :
                     responses[i] \notin {"NETWORK_ERROR", "NO_BODY"}}
            raw == IF ok = {} THEN "ACTIVE"
                   ELSE responses[CHOOSE i \in ok : \A j \in ok : j <= i]
        IN  /\ raw = "PAID" => result = "AUTHORIZED"
            /\ raw = "ACTIVE" => result = "PENDING"
            /\ raw \in {"EXPIRED", "USER_DROPPED"} => result = "CANCELED"
            /\ raw \notin {"PAID", "ACTIVE", "EXPIRED", "USER_DROPPED"} => result = "ERROR"
            /\ ok = {} => (attempts = 5 /\ Len(responses) = 5 /\ result = "PENDING")

C22_Witness ==
    /\ provider = "cashfree" /\ op = "getPaymentStatus" /\ pc = "done"
    /\ responses = <<"UNKNOWN", "NETWORK_ERROR", "NO_BODY", "NETWORK_ERROR", "NO_BODY">>
    /\ result = "ERROR"

\* C23: Razorpay capturePayment never raises; when the gateway capture
\* succeeds the returned data has status "captured", when it fails the
\* input data is returned unchanged; getPaymentStatus on data with status
\* "captured" returns CAPTURED, and on data with status "authorized" (a
\* failed capture of an authorized session) AUTHORIZED, without a gateway
\* call.
C23_CaptureMarksOnlyOnSuccess ==
    /\ (provider = "razorpay" /\ op = "capturePayment") => ~thrown
    /\ (provider = "razorpay" /\ op = "capturePayment" /\ pc = "done" /\ ~thrown) =>
          /\ Len(responses) = 1
          /\ responses[1] = "OK" =>
                /\ outData.status = "captured"
                /\ outData.razorpay_payment_id = session.razorpay_payment_id
          /\ responses[1] # "OK" => outData = session
    /\ ( /\ provider = "razorpay" /\ op = "getPaymentStatus" /\ pc = "done"
         /\ session.kind = "rzp" )
       => /\ session.status = "captured" => (result = "CAPTURED" /\ gatewayCalls = 0)
          /\ session.status = "authorized" => (result = "AUTHORIZED" /\ gatewayCalls = 0)

\* C24: for both gateways cancelPayment, deletePayment and retrievePayment
\* (and Cashfree capturePayment) return the session data they were given,
\* unmodified, raise nothing and issue no gateway call, and a
\* getPaymentStatus that follows such a call reports the same status as
\* the getPaymentStatus before it.
C24_PassThroughChangesNothing ==
    /\ ( /\ op \in {"cancelPayment", "deletePayment", "retrievePayment"} \cup
                    (IF provider = "cashfree" THEN {"capturePayment"} ELSE {})
         /\ pc = "done" )
       => /\ ~thrown
          /\ gatewayCalls = 0
          /\ responses = <<>>
          /\ outData = (IF provider = "cashfree"
                          THEN (IF session.kind = "null" THEN NullRef ELSE LevelRef(1))
                          ELSE session)
    /\ (op = "getPaymentStatus" /\ pc = "done" /\ statusBefore # "none")
       => result = statusBefore

====
